---- MODULE Spec2Model ----
(***************************************************************************)
(* Model of telebot.formatting.apply_html_entities: the recursive          *)
(* entity-to-HTML renderer.  A Python str is a sequence of one-character   *)
(* strings, a bytes object a sequence of integers 0..255, a call's outcome *)
(* either a returned string or a raised exception.                         *)
(***************************************************************************)
EXTENDS Integers, Sequences, FiniteSets, TLC

VARIABLES text, entities, custom_subs, pc, result

vars == <<text, entities, custom_subs, pc, result>>

----------------------------------------------------------------------------
(* Outcomes of a call: a value, or an exception that propagates.  log is   *)
(* the sequence of entities format_entity has been entered with so far.    *)

Ok(v, l) == [ok |-> TRUE, val |-> v, exc |-> "none", log |-> l]

Raise(x, l) == [ok |-> FALSE, val |-> <<>>, exc |-> x, log |-> l]

----------------------------------------------------------------------------
(* Code points of the characters the model's texts are written in.         *)

Ord ==
  [c \in {"a", "&", "<", ">", "H", "e", "l", "o", " ", "W", "r", "d", "U+1F600"} |->
     CASE c = "a" -> 97 [] c = "&" -> 38 [] c = "<" -> 60 [] c = ">" -> 62
       [] c = "H" -> 72 [] c = "e" -> 101 [] c = "l" -> 108 [] c = "o" -> 111
       [] c = " " -> 32 [] c = "W" -> 87 [] c = "r" -> 114 [] c = "d" -> 100
       [] c = "U+1F600" -> 128512]

Chr(n) == CHOOSE c \in DOMAIN Ord : Ord[c] = n

IsChr(n) == \E c \in DOMAIN Ord : Ord[c] = n

(* str.encode("utf-16-le"): two bytes per code unit, low byte first; a     *)
(* code point above U+FFFF becomes a high and a low surrogate.             *)
EncodeChar(c) ==
  LET cp == Ord[c]
      v  == cp - 65536
      hi == 55296 + (v \div 1024)
      lo == 56320 + (v % 1024)
  IN IF cp < 65536
       THEN <<cp % 256, cp \div 256>>
       ELSE <<hi % 256, hi \div 256, lo % 256, lo \div 256>>

RECURSIVE Encode(_)
Encode(s) == IF s = <<>> THEN <<>> ELSE EncodeChar(Head(s)) \o Encode(Tail(s))

(* bytes.decode("utf-16-le"), strict: a truncated unit, a high surrogate   *)
(* with no low surrogate after it, or a lone low surrogate raises          *)
(* UnicodeDecodeError.  The result is [ok, val].                           *)
RECURSIVE Decode(_)
Decode(b) ==
  IF b = <<>> THEN [ok |-> TRUE, val |-> <<>>]
  ELSE IF Len(b) < 2 THEN [ok |-> FALSE, val |-> <<>>]
  ELSE
    LET u == b[1] + 256 * b[2]
    IN IF u >= 55296 /\ u <= 56319
         THEN IF Len(b) < 4 THEN [ok |-> FALSE, val |-> <<>>]
              ELSE LET w == b[3] + 256 * b[4]
                       r == Decode(SubSeq(b, 5, Len(b)))
                       cp == 65536 + (u - 55296) * 1024 + (w - 56320)
                   IN IF w >= 56320 /\ w <= 57343 /\ IsChr(cp) /\ r.ok
                        THEN [ok |-> TRUE, val |-> <<Chr(cp)>> \o r.val]
                        ELSE [ok |-> FALSE, val |-> <<>>]
       ELSE IF u >= 56320 /\ u <= 57343 THEN [ok |-> FALSE, val |-> <<>>]
       ELSE LET r == Decode(SubSeq(b, 3, Len(b)))
            IN IF IsChr(u) /\ r.ok
                 THEN [ok |-> TRUE, val |-> <<Chr(u)>> \o r.val]
                 ELSE [ok |-> FALSE, val |-> <<>>]

(* Python slicing s[a:b] for 0 <= a, 0 <= b: both ends clamp to len(s).    *)
Slice(s, a, b) ==
  LET lo == IF a > Len(s) THEN Len(s) ELSE a
      hi == IF b > Len(s) THEN Len(s) ELSE b
  IN IF lo >= hi THEN <<>> ELSE SubSeq(s, lo + 1, hi)

(* str.replace(old, new) for a one-character old.                          *)
RECURSIVE Replace(_, _, _)
Replace(s, old, new) ==
  IF s = <<>> THEN <<>>
  ELSE (IF Head(s) = old THEN new ELSE <<Head(s)>>) \o Replace(Tail(s), old, new)

Amp == <<"&", "a", "m", "p", ";">>

Lt == <<"&", "l", "t", ";">>

Gt == <<"&", "g", "t", ";">>

(* .replace("&", "&amp;").replace("<", "&lt;").replace(">", "&gt;")        *)
EscapeStr(s) == Replace(Replace(Replace(s, "&", Amp), "<", Lt), ">", Gt)

(* escape_entity: decode the byte slice, then escape it.                   *)
escape_entity(text_part, l) ==
  LET d == Decode(text_part)
  IN IF d.ok THEN Ok(EscapeStr(d.val), l) ELSE Raise("UnicodeDecodeError", l)

----------------------------------------------------------------------------
(* The template table.  A dict is a sequence of <<key, value>> pairs with  *)
(* distinct keys; a template is its literal characters with each           *)
(* replacement field "{name}" kept whole.                                  *)

DefaultSubs ==
    <<
       <<"bold", <<"<", "b", ">", "{text}", "<", "/", "b", ">">>>>,
       <<"italic", <<"<", "i", ">", "{text}", "<", "/", "i", ">">>>>,
       <<"pre", <<"<", "p", "r", "e", ">", "{text}", "<", "/", "p", "r", "e", ">">>>>,
       <<"code", <<"<", "c", "o", "d", "e", ">", "{text}", "<", "/", "c", "o", "d", "e", ">">>>>,
       <<"text_link", <<"<", "a", " ", "h", "r", "e", "f", "=", "\"", "{url}", "\"", ">", "{text}", "<", "/", "a", ">">>>>,
       <<"strikethrough", <<"<", "s", ">", "{text}", "<", "/", "s", ">">>>>,
       <<"underline", <<"<", "u", ">", "{text}", "<", "/", "u", ">">>>>,
       <<"spoiler", <<"<", "s", "p", "a", "n", " ", "c", "l", "a", "s", "s", "=", "\"", "t", "g", "-", "s", "p", "o", "i", "l", "e", "r", "\"", ">", "{text}", "<", "/", "s", "p", "a", "n", ">">>>>,
       <<"custom_emoji", <<"<", "t", "g", "-", "e", "m", "o", "j", "i", " ", "e", "m", "o", "j", "i", "-", "i", "d", "=", "\"", "{custom_emoji_id}", "\"", ">", "{text}", "<", "/", "t", "g", "-", "e", "m", "o", "j", "i", ">">>>>,
       <<"blockquote", <<"<", "b", "l", "o", "c", "k", "q", "u", "o", "t", "e", ">", "{text}", "<", "/", "b", "l", "o", "c", "k", "q", "u", "o", "t", "e", ">">>>>,
       <<"expandable_blockquote", <<"<", "b", "l", "o", "c", "k", "q", "u", "o", "t", "e", " ", "e", "x", "p", "a", "n", "d", "a", "b", "l", "e", ">", "{text}", "<", "/", "b", "l", "o", "c", "k", "q", "u", "o", "t", "e", ">">>>>
    >>

HasKey(d, k) == \E i \in DOMAIN d : d[i][1] = k

Get(d, k) == d[CHOOSE i \in DOMAIN d : d[i][1] = k][2]

(* d[k] = v                                                                *)
Put(d, k, v) ==
  IF HasKey(d, k)
    THEN [i \in DOMAIN d |-> IF d[i][1] = k THEN <<k, v>> ELSE d[i]]
    ELSE Append(d, <<k, v>>)

(* for key, value in custom_subs.items(): _subs[key] = value               *)
RECURSIVE Merge(_, _)
Merge(d, cs) ==
  IF cs = <<>> THEN d ELSE Merge(Put(d, Head(cs)[1], Head(cs)[2]), Tail(cs))

_subs(cs) == Merge(DefaultSubs, cs)


(* template.format(text=content): fields are substituted left to right; a  *)
(* field other than {text} has no argument and raises KeyError.            *)
RECURSIVE Format(_, _)
Format(template, content) ==
  IF template = <<>> THEN [ok |-> TRUE, val |-> <<>>]
  ELSE LET tok == Head(template)
           r == Format(Tail(template), content)
       IN IF tok = "{text}"
            THEN [ok |-> r.ok, val |-> IF r.ok THEN content \o r.val ELSE <<>>]
          ELSE IF tok \in {"{url}", "{custom_emoji_id}"}
            THEN [ok |-> FALSE, val |-> <<>>]
          ELSE [ok |-> r.ok, val |-> IF r.ok THEN <<tok>> \o r.val ELSE <<>>]

----------------------------------------------------------------------------
(* Entities.  offset and length count UTF-16 code units.  A payload        *)
(* attribute is missing (hasattr is False), None, or set to a value.       *)

Missing == [st |-> "missing", v |-> <<>>]

NoneVal == [st |-> "none", v |-> <<>>]

SetTo(v) == [st |-> "set", v |-> v]

Entity(o, n, t) ==
  [offset |-> o, length |-> n, type |-> t,
   user |-> Missing, url |-> Missing, custom_emoji_id |-> Missing, language |-> Missing]

hasattr(a) == a.st # "missing"

(* An attribute interpolated into an f-string: str(None) is "None".        *)
Str(a) == IF a.st = "none" THEN <<"N", "o", "n", "e">> ELSE a.v

(* format_entity with the table consulted before the special cases.        *)
format_entity_table_first(entity, content, subs, l) ==
  LET lg == Append(l, entity)
  IN IF HasKey(subs, entity.type)
       THEN LET f == Format(Get(subs, entity.type), content)
            IN IF f.ok THEN Ok(f.val, lg) ELSE Raise("KeyError", lg)
     ELSE IF entity.type = "text_mention" /\ hasattr(entity.user) /\ entity.user.st = "set"
       THEN Ok(<<"<", "a", " ", "h", "r", "e", "f", "=", "\"", "t", "g", ":", "/", "/", "u", "s", "e", "r", "?", "i", "d", "=">> \o entity.user.v \o <<"\"", ">">> \o content \o <<"<", "/", "a", ">">>, lg)
     ELSE Ok(content, lg)

(* format_entity: the attribute-bearing special cases first, then the      *)
(* table, then the content as it is.  entity.user.id on a user that is     *)
(* None raises AttributeError; a table template with a field other than    *)
(* {text} raises KeyError.                                                  *)
format_entity(entity, content, subs, l) ==
  LET entity_type == entity.type
      lg == Append(l, entity)
  IN IF entity_type = "text_mention" /\ hasattr(entity.user)
       THEN IF entity.user.st = "none"
              THEN Raise("AttributeError", lg)
              ELSE Ok(<<"<", "a", " ", "h", "r", "e", "f", "=", "\"", "t", "g", ":", "/", "/", "u", "s", "e", "r", "?", "i", "d", "=">> \o entity.user.v \o <<"\"", ">">> \o content \o <<"<", "/", "a", ">">>, lg)
     ELSE IF entity_type = "text_link" /\ hasattr(entity.url)
       THEN Ok(<<"<", "a", " ", "h", "r", "e", "f", "=", "\"">> \o Str(entity.url) \o <<"\"", ">">> \o content \o <<"<", "/", "a", ">">>, lg)
     ELSE IF entity_type = "custom_emoji" /\ hasattr(entity.custom_emoji_id)
       THEN Ok(<<"<", "t", "g", "-", "e", "m", "o", "j", "i", " ", "e", "m", "o", "j", "i", "-", "i", "d", "=", "\"">> \o Str(entity.custom_emoji_id) \o <<"\"", ">">> \o content
               \o <<"<", "/", "t", "g", "-", "e", "m", "o", "j", "i", ">">>, lg)
     ELSE IF entity_type = "pre" /\ hasattr(entity.language)
             /\ entity.language.st = "set" /\ entity.language.v # <<>>
       THEN Ok(<<"<", "p", "r", "e", ">", "<", "c", "o", "d", "e", " ", "c", "l", "a", "s", "s", "=", "\"", "l", "a", "n", "g", "u", "a", "g", "e", "-">> \o entity.language.v \o <<"\"", ">">> \o content
               \o <<"<", "/", "c", "o", "d", "e", ">", "<", "/", "p", "r", "e", ">">>, lg)
     ELSE IF HasKey(subs, entity_type)
       THEN LET f == Format(Get(subs, entity_type), content)
            IN IF f.ok THEN Ok(f.val, lg) ELSE Raise("KeyError", lg)
     ELSE Ok(content, lg)

----------------------------------------------------------------------------
(* sorted(entities, key=lambda e: (e.offset, -e.length)): a stable sort.   *)

KeyLess(a, b) == a.offset < b.offset \/ (a.offset = b.offset /\ a.length > b.length)

(* e placed after every element whose key is not greater than its own.     *)
RECURSIVE InsertSorted(_, _)
InsertSorted(s, e) ==
  IF s = <<>> THEN <<e>>
  ELSE IF KeyLess(e, Head(s)) THEN <<e>> \o s
  ELSE <<Head(s)>> \o InsertSorted(Tail(s), e)

RECURSIVE sorted(_)
sorted(s) ==
  IF s = <<>> THEN <<>>
  ELSE InsertSorted(sorted(SubSeq(s, 1, Len(s) - 1)), s[Len(s)])

----------------------------------------------------------------------------
(* process_entities(byte_text, entity_list, start_pos, end_pos); positions *)
(* are byte positions, two per code unit.                                  *)

RECURSIVE process_entities(_, _, _, _, _, _)
(* process_entities without its last branch: the text after the current    *)
(* entity is lost when no entity remains.                                  *)
process_entities_no_tail(byte_text, entity_list, start_pos, end_pos, subs, l) ==
  IF entity_list = <<>> \/ start_pos >= end_pos
    THEN escape_entity(Slice(byte_text, start_pos, end_pos), l)
  ELSE
    LET current_entity == Head(entity_list)
        current_start == current_entity.offset * 2
        current_end == current_start + current_entity.length * 2
        IsNested(entity) ==
          current_start <= entity.offset * 2 /\ entity.offset * 2 < current_end
        IsRemaining(entity) == ~IsNested(entity)
        nested_entities == SelectSeq(Tail(entity_list), IsNested)
        remaining_entities == SelectSeq(Tail(entity_list), IsRemaining)
        prefix ==
          IF current_start > start_pos
            THEN escape_entity(Slice(byte_text, start_pos, current_start), l)
            ELSE Ok(<<>>, l)
        inner_content ==
          IF nested_entities # <<>>
            THEN process_entities(byte_text, nested_entities, current_start,
                                  current_end, subs, prefix.log)
            ELSE escape_entity(Slice(byte_text, current_start, current_end), prefix.log)
        wrapped == format_entity(current_entity, inner_content.val, subs, inner_content.log)
        tail ==
          IF current_end < end_pos /\ remaining_entities # <<>>
            THEN process_entities(byte_text, remaining_entities, current_end,
                                  end_pos, subs, wrapped.log)
          ELSE Ok(<<>>, wrapped.log)
    IN IF current_end <= start_pos \/ current_start >= end_pos
         THEN escape_entity(Slice(byte_text, start_pos, end_pos), l)
       ELSE IF ~prefix.ok THEN prefix
       ELSE IF ~inner_content.ok THEN inner_content
       ELSE IF ~wrapped.ok THEN wrapped
       ELSE IF ~tail.ok THEN tail
       ELSE Ok(prefix.val \o wrapped.val \o tail.val, tail.log)

process_entities(byte_text, entity_list, start_pos, end_pos, subs, l) ==
  IF entity_list = <<>> \/ start_pos >= end_pos
    THEN escape_entity(Slice(byte_text, start_pos, end_pos), l)
  ELSE
    LET current_entity == Head(entity_list)
        current_start == current_entity.offset * 2
        current_end == current_start + current_entity.length * 2
        IsNested(entity) ==
          current_start <= entity.offset * 2 /\ entity.offset * 2 < current_end
        IsRemaining(entity) == ~IsNested(entity)
        nested_entities == SelectSeq(Tail(entity_list), IsNested)
        remaining_entities == SelectSeq(Tail(entity_list), IsRemaining)
        prefix ==
          IF current_start > start_pos
            THEN escape_entity(Slice(byte_text, start_pos, current_start), l)
            ELSE Ok(<<>>, l)
        inner_content ==
          IF nested_entities # <<>>
            THEN process_entities(byte_text, nested_entities, current_start,
                                  current_end, subs, prefix.log)
            ELSE escape_entity(Slice(byte_text, current_start, current_end), prefix.log)
        wrapped == format_entity(current_entity, inner_content.val, subs, inner_content.log)
        tail ==
          IF current_end < end_pos /\ remaining_entities # <<>>
            THEN process_entities(byte_text, remaining_entities, current_end,
                                  end_pos, subs, wrapped.log)
          ELSE IF current_end < end_pos
            THEN escape_entity(Slice(byte_text, current_end, end_pos), wrapped.log)
          ELSE Ok(<<>>, wrapped.log)
    IN IF current_end <= start_pos \/ current_start >= end_pos
         THEN escape_entity(Slice(byte_text, start_pos, end_pos), l)
       ELSE IF ~prefix.ok THEN prefix
       ELSE IF ~inner_content.ok THEN inner_content
       ELSE IF ~wrapped.ok THEN wrapped
       ELSE IF ~tail.ok THEN tail
       ELSE Ok(prefix.val \o wrapped.val \o tail.val, tail.log)

(* apply_html_entities with a non-empty entity list.                       *)
apply_html_entities(t, es, cs) ==
  LET utf16_text == Encode(t)
  IN process_entities(utf16_text, sorted(es), 0, Len(utf16_text), _subs(cs), <<>>)

----------------------------------------------------------------------------
(* Bounds of the explored inputs.                                          *)

MaxLen == 3

MaxEnts == 2

TextChars == {"a", "&", "<", ">", "U+1F600"}

Units(c) == IF Ord[c] < 65536 THEN 1 ELSE 2

RECURSIVE UnitLen(_)
UnitLen(s) == IF s = <<>> THEN 0 ELSE Units(Head(s)) + UnitLen(Tail(s))

Texts == {s \in UNION {[1..n -> TextChars] : n \in 0..MaxLen} : UnitLen(s) <= MaxLen}

Spans == (0..MaxLen) \X (0..MaxLen)

ResolverTypes == {"bold", "italic", "zzz"}

ResolverEntities == {Entity(sp[1], sp[2], t) : sp \in Spans, t \in ResolverTypes}

EntityLists == UNION {[1..n -> ResolverEntities] : n \in 0..MaxEnts}

NotCalled == [ok |-> TRUE, val |-> <<>>, exc |-> "none", log |-> <<>>]

----------------------------------------------------------------------------
(* The state machine: one call of apply_html_entities.                     *)

Init ==
  /\ text \in Texts
  /\ entities \in EntityLists
  /\ custom_subs = <<>>
  /\ pc = "call"
  /\ result = NotCalled

(* if not entities: return the escaped text; no code-unit buffer is built. *)
EscapeOnly ==
  /\ pc = "call"
  /\ entities = <<>>
  /\ result' = Ok(EscapeStr(text), <<>>)
  /\ pc' = "done"
  /\ UNCHANGED <<text, entities, custom_subs>>

Render ==
  /\ pc = "call"
  /\ entities # <<>>
  /\ result' = apply_html_entities(text, entities, custom_subs)
  /\ pc' = "done"
  /\ UNCHANGED <<text, entities, custom_subs>>

Next == EscapeOnly \/ Render

Spec == Init /\ [][Next]_vars

----------------------------------------------------------------------------
(* A second family of inputs, for the template registry: one in-bounds     *)
(* entity of every type and payload state, and caller-supplied templates.  *)

MaxTplLen == 2

MaxCustom == 1

TplTexts == UNION {[1..n -> {"a", "&"}] : n \in 1..MaxTplLen}

PayloadStates(t) ==
  LET e == Entity(0, 0, t)
  IN CASE t = "text_mention" ->
            {[e EXCEPT !.user = a] : a \in {Missing, NoneVal, SetTo(<<"7">>)}}
       [] t = "text_link" ->
            {[e EXCEPT !.url = a] : a \in {Missing, NoneVal, SetTo(<<"u">>)}}
       [] t = "custom_emoji" ->
            {[e EXCEPT !.custom_emoji_id = a] : a \in {Missing, NoneVal, SetTo(<<"5">>)}}
       [] t = "pre" ->
            {[e EXCEPT !.language = a] :
               a \in {Missing, NoneVal, SetTo(<<>>), SetTo(<<"p", "y">>)}}
       [] OTHER -> {e}

AllTypes == {DefaultSubs[i][1] : i \in DOMAIN DefaultSubs} \cup {"text_mention", "zzz"}

TplEntities(n) ==
  {[e EXCEPT !.offset = o, !.length = k] :
     e \in UNION {PayloadStates(t) : t \in AllTypes},
     o \in 0..(n - 1), k \in 1..n}

CustomTemplates == {<<"<", "x", ">", "{text}", "<", "/", "x", ">">>, <<"[", "{text}", "]">>}

CustomKeys == {"bold", "text_link", "custom_emoji", "pre", "text_mention", "zzz"}

CustomSubs ==
  {cs \in UNION {[1..n -> CustomKeys \X CustomTemplates] : n \in 0..MaxCustom} :
     \A i, j \in DOMAIN cs : cs[i][1] = cs[j][1] => i = j}

InitTemplates ==
  /\ text \in TplTexts
  /\ entities \in {<<>>} \cup {<<e>> : e \in {x \in TplEntities(Len(text)) : x.offset + x.length <= Len(text)}}
  /\ custom_subs \in CustomSubs
  /\ pc = "call"
  /\ result = NotCalled

SpecTemplates == InitTemplates /\ [][Next]_vars

----------------------------------------------------------------------------
(* A third family, around the worked example: "Hello World" with a bold    *)
(* entity at offset 0 and an italic entity after it.                       *)

MaxBoldLen == 11

MaxItalicOffset == 3

MaxItalicLen == 3

HelloWorld == <<"H", "e", "l", "l", "o", " ", "W", "o", "r", "l", "d">>

InitExample ==
  /\ text = HelloWorld
  /\ entities \in {<<>>} \cup
       {<<Entity(0, n, "bold"), Entity(m, k, "italic")>> :
          n \in 0..MaxBoldLen, m \in 0..MaxItalicOffset, k \in 0..MaxItalicLen}
  /\ custom_subs = <<>>
  /\ pc = "call"
  /\ result = NotCalled

SpecExample == InitExample /\ [][Next]_vars

----------------------------------------------------------------------------
(* Vocabulary of the properties.                                           *)

Done == pc = "done"

N == UnitLen(text)

End(e) == e.offset + e.length

InBounds(e) == End(e) <= N

Malformed(e) == e.length = 0 \/ e.offset >= N \/ End(e) > N

Disjoint(a, b) == End(a) <= b.offset \/ End(b) <= a.offset

Inside(a, b) == b.offset <= a.offset /\ End(a) <= End(b)

NestedOrDisjoint(a, b) == Inside(a, b) \/ Inside(b, a) \/ Disjoint(a, b)

(* b starts inside a and ends past a's end.                                *)
Crosses(a, b) == a.offset < b.offset /\ b.offset < End(a) /\ End(a) < End(b)

WellFormedList(es) ==
  /\ \A i \in DOMAIN es : es[i].length > 0 /\ InBounds(es[i])
  /\ \A i, j \in DOMAIN es : i # j => NestedOrDisjoint(es[i], es[j])

RECURSIVE Count(_, _)
Count(s, e) ==
  IF s = <<>> THEN 0 ELSE (IF Head(s) = e THEN 1 ELSE 0) + Count(Tail(s), e)

(* The output with every tag, from "<" to the next ">", removed.           *)
RECURSIVE StripFrom(_, _)
StripFrom(s, inTag) ==
  IF s = <<>> THEN <<>>
  ELSE IF inTag THEN StripFrom(Tail(s), Head(s) # ">")
  ELSE IF Head(s) = "<" THEN StripFrom(Tail(s), TRUE)
  ELSE <<Head(s)>> \o StripFrom(Tail(s), FALSE)

StripMarkup(s) == StripFrom(s, FALSE)

(* What a call returns or raises, the log left aside.                      *)
Outcome(r) == <<r.ok, r.val, r.exc>>

(* The whole call, as the two actions make it.                             *)
Call(t, es, cs) ==
  IF es = <<>> THEN Ok(EscapeStr(t), <<>>) ELSE apply_html_entities(t, es, cs)

(* The conditions under which format_entity takes one of its               *)
(* attribute-bearing branches, and its table branch.                       *)
TakesSpecialCase(e) ==
  \/ e.type = "text_mention" /\ hasattr(e.user)
  \/ e.type = "text_link" /\ hasattr(e.url)
  \/ e.type = "custom_emoji" /\ hasattr(e.custom_emoji_id)
  \/ e.type = "pre" /\ e.language.st = "set" /\ e.language.v # <<>>

UnknownType(e) == ~TakesSpecialCase(e) /\ ~HasKey(_subs(custom_subs), e.type)

IsKnown(e) == ~UnknownType(e)

Perms(n) == {p \in [1..n -> 1..n] : \A i, j \in 1..n : p[i] = p[j] => i = j}

Permuted(es, p) == [i \in 1..Len(es) |-> es[p[i]]]

OffsetOrdered(l) == \A i, j \in DOMAIN l : i < j => l[i].offset <= l[j].offset

IsPrefixOf(a, b) == Len(a) <= Len(b) /\ SubSeq(b, 1, Len(a)) = a

IsSuffixOf(a, b) == Len(a) <= Len(b) /\ SubSeq(b, Len(b) - Len(a) + 1, Len(b)) = a

Min(a, b) == IF a < b THEN a ELSE b

Others(es, m) == [i \in 1..(Len(es) - 1) |-> IF i < m THEN es[i] ELSE es[i + 1]]

(* The render of the window [from, to) of the text, in code units, with    *)
(* the entities es alone.                                                  *)
RenderWindow(es, from, to) ==
  process_entities(Encode(text), sorted(es), 2 * from, 2 * to, _subs(custom_subs), <<>>)

----------------------------------------------------------------------------
(* C3: when one entity of the list is malformed (zero length, or offset or *)
(* offset+length beyond the buffer) and the others are well-formed and do  *)
(* not overlap it, every well-formed entity is still wrapped, and the text *)
(* before and after the malformed span is rendered as it is without the    *)
(* malformed entity.  Stated of the calls that return, where the three     *)
(* renders compared all exist.                                             *)
C3_MalformedIsLocal ==
  Done =>
    \A m \in DOMAIN entities :
      LET bad == entities[m]
          rest == Others(entities, m)
          StartsBefore(e) == End(e) <= bad.offset
          StartsAfter(e) == ~StartsBefore(e)
          before == RenderWindow(SelectSeq(rest, StartsBefore), 0, Min(bad.offset, N))
          after == RenderWindow(SelectSeq(rest, StartsAfter), Min(End(bad), N), N)
      IN (/\ Malformed(bad)
          /\ WellFormedList(rest)
          /\ \A i \in DOMAIN rest : Disjoint(rest[i], bad)
          /\ result.ok /\ before.ok /\ after.ok)
         => /\ \A i \in DOMAIN rest : Count(result.log, rest[i]) = Count(rest, rest[i])
            /\ IsPrefixOf(before.val, result.val)
            /\ IsSuffixOf(after.val, result.val)

(* C4: every call returns a string; none raises.                           *)
C4_NeverRaises == Done => result.ok

(* C5: for a list of in-bounds, positive-length, pairwise nested or        *)
(* disjoint entities, the output with the wrapper markup removed is the    *)
(* text escaped once, and a single entity spanning the whole text yields   *)
(* its template applied once to the escaped text.                          *)
C5_EscapedExactlyOnce ==
  Done /\ WellFormedList(entities) =>
    /\ result.ok
    /\ StripMarkup(result.val) = EscapeStr(text)
    /\ (Len(entities) = 1 /\ entities[1].offset = 0 /\ entities[1].length = N) =>
         Outcome(result) =
           Outcome(format_entity(entities[1], EscapeStr(text), _subs(custom_subs), <<>>))

(* C6: for pairwise disjoint entities the output is the same for every     *)
(* permutation of the input list, and the entities are wrapped left to     *)
(* right in increasing offset order.                                       *)
C6_OrderIndependent ==
  Done /\ (\A i, j \in DOMAIN entities : i # j => Disjoint(entities[i], entities[j])) =>
    /\ \A p \in Perms(Len(entities)) :
         Outcome(Call(text, Permuted(entities, p), custom_subs)) = Outcome(result)
    /\ OffsetOrdered(result.log)

(* C8: an entity of unknown type adds no markup of its own, and the        *)
(* entities nested in it and after it are still rendered: the output of a  *)
(* well-formed list is the output of the list without its unknown-type     *)
(* entities, and every other entity is wrapped.                            *)
C8_UnknownTypeTransparent ==
  Done /\ WellFormedList(entities) /\ (\E i \in DOMAIN entities : UnknownType(entities[i])) =>
    /\ result.ok
    /\ Outcome(result) = Outcome(Call(text, SelectSeq(entities, IsKnown), custom_subs))
    /\ \A i \in DOMAIN entities :
         IsKnown(entities[i]) => Count(result.log, entities[i]) = Count(entities, entities[i])

(* C9: an entity that starts inside another entity and ends past its end   *)
(* is dropped (it is never formatted), and no code unit of the text is     *)
(* emitted twice.                                                          *)
C9_CrossingEntityDropped ==
  (/\ Done /\ result.ok
   /\ \A i \in DOMAIN entities : entities[i].length > 0 /\ InBounds(entities[i])
   /\ \E i, j \in DOMAIN entities : Crosses(entities[i], entities[j]))
  => /\ StripMarkup(result.val) = EscapeStr(text)
     /\ \A i, j \in DOMAIN entities :
          Crosses(entities[i], entities[j]) => Count(result.log, entities[j]) = 0

(* C10: format_entity is applied at most once to each entity of the input  *)
(* list, and exactly once to each when the list is well-formed.            *)
C10_FormattedOncePerEntity ==
  Done =>
    /\ \A i \in DOMAIN result.log :
         Count(result.log, result.log[i]) <= Count(entities, result.log[i])
    /\ WellFormedList(entities) =>
         \A i \in DOMAIN entities :
           Count(result.log, entities[i]) = Count(entities, entities[i])

----------------------------------------------------------------------------
(* The template claims, over the single-entity inputs of SpecTemplates,    *)
(* whose texts have one code unit per character.                           *)

EscapedPart(a, b) == EscapeStr(SubSeq(text, a + 1, b))

(* The markup of the four attribute-bearing special cases.                 *)
BuiltinMarkup(e, content) ==
  CASE e.type = "text_mention" ->
         <<"<", "a", " ", "h", "r", "e", "f", "=", "\"", "t", "g", ":", "/", "/", "u", "s", "e", "r", "?", "i", "d", "=">> \o e.user.v \o <<"\"", ">">> \o content \o <<"<", "/", "a", ">">>
    [] e.type = "text_link" ->
         <<"<", "a", " ", "h", "r", "e", "f", "=", "\"">> \o e.url.v \o <<"\"", ">">> \o content \o <<"<", "/", "a", ">">>
    [] e.type = "custom_emoji" ->
         <<"<", "t", "g", "-", "e", "m", "o", "j", "i", " ", "e", "m", "o", "j", "i", "-", "i", "d", "=", "\"">> \o e.custom_emoji_id.v \o <<"\"", ">">> \o content \o <<"<", "/", "t", "g", "-", "e", "m", "o", "j", "i", ">">>
    [] e.type = "pre" ->
         <<"<", "p", "r", "e", ">", "<", "c", "o", "d", "e", " ", "c", "l", "a", "s", "s", "=", "\"", "l", "a", "n", "g", "u", "a", "g", "e", "-">> \o e.language.v \o <<"\"", ">">> \o content \o <<"<", "/", "c", "o", "d", "e", ">", "<", "/", "p", "r", "e", ">">>

(* text_mention with user, text_link with url, custom_emoji with           *)
(* custom_emoji_id, pre with a non-empty language.                         *)
MatchesSpecialCase(e) ==
  \/ e.type = "text_mention" /\ e.user.st = "set"
  \/ e.type = "text_link" /\ e.url.st = "set"
  \/ e.type = "custom_emoji" /\ e.custom_emoji_id.st = "set"
  \/ e.type = "pre" /\ e.language.st = "set" /\ e.language.v # <<>>

PayloadAbsent(e) ==
  \/ e.type = "text_mention" /\ e.user.st = "missing"
  \/ e.type = "text_link" /\ e.url.st = "missing"
  \/ e.type = "custom_emoji" /\ e.custom_emoji_id.st = "missing"

(* C2: an entity of a type that requires an attribute, whose payload       *)
(* attribute is absent, renders as its inner content with no wrapper, and  *)
(* the call does not raise.                                                *)
C2_MissingPayloadFallsBack ==
  (Done /\ Len(entities) = 1 /\ PayloadAbsent(entities[1])
     /\ ~HasKey(custom_subs, entities[1].type))
  => /\ result.ok
     /\ result.val = EscapedPart(0, Len(text))

(* C7: a custom_subs entry is the template used for its type in the        *)
(* generic lookup, and an entity that matches a special case is rendered   *)
(* with the built-in special-case markup whatever custom_subs holds.       *)
C7_SpecialCasesBeforeCustomSubs ==
  Done /\ Len(entities) = 1 =>
    LET e == entities[1]
        before == EscapedPart(0, e.offset)
        content == EscapedPart(e.offset, End(e))
        after == EscapedPart(End(e), Len(text))
    IN /\ MatchesSpecialCase(e) =>
            result.ok /\ result.val = before \o BuiltinMarkup(e, content) \o after
       /\ (~TakesSpecialCase(e) /\ HasKey(custom_subs, e.type)) =>
            /\ result.ok
            /\ result.val = before \o Format(Get(custom_subs, e.type), content).val \o after

C7_Witness ==
  /\ Done /\ Len(entities) = 1 /\ result.ok
  /\ MatchesSpecialCase(entities[1])
  /\ HasKey(custom_subs, entities[1].type)

----------------------------------------------------------------------------
(* The worked example, under SpecExample.                                  *)

ExampleEntities == <<Entity(0, 10, "bold"), Entity(2, 3, "italic")>>

(* C1 as the specification states it: the output is                        *)
(* "<b>He<i>llo</i> World</b>", with nothing after the closing </b>.       *)
C1_AsStated ==
  Done /\ text = HelloWorld /\ entities = ExampleEntities =>
    result.ok /\ result.val = <<"<", "b", ">", "H", "e", "<", "i", ">", "l", "l", "o", "<", "/", "i", ">", " ", "W", "o", "r", "l", "d", "<", "/", "b", ">">>

(* C1, amended: the bold entity covers code units 0..9 of the eleven, so   *)
(* the output is "<b>He<i>llo</i> Worl</b>d": the last unit, "d", follows   *)
(* the closing </b>.                                                       *)
C1_WorkedExample ==
  Done /\ text = HelloWorld /\ entities = ExampleEntities =>
    result.ok /\ result.val = <<"<", "b", ">", "H", "e", "<", "i", ">", "l", "l", "o", "<", "/", "i", ">", " ", "W", "o", "r", "l", "<", "/", "b", ">", "d">>

C1_Witness == Done /\ text = HelloWorld /\ entities = ExampleEntities /\ result.ok

----------------------------------------------------------------------------
(* What holds of the calls that return: the parts of C5, C6, C8 and C10    *)
(* that the raises of C2 and C4 leave standing.                            *)

Returned_EscapedExactlyOnce ==
  Done /\ result.ok /\ WellFormedList(entities) =>
    /\ StripMarkup(result.val) = EscapeStr(text)
    /\ (Len(entities) = 1 /\ entities[1].offset = 0 /\ entities[1].length = N) =>
         Outcome(result) =
           Outcome(format_entity(entities[1], EscapeStr(text), _subs(custom_subs), <<>>))

Positive_OrderIndependent ==
  (/\ Done
   /\ \A i \in DOMAIN entities : entities[i].length > 0
   /\ \A i, j \in DOMAIN entities : i # j => Disjoint(entities[i], entities[j]))
  => /\ \A p \in Perms(Len(entities)) :
          Outcome(Call(text, Permuted(entities, p), custom_subs)) = Outcome(result)
     /\ OffsetOrdered(result.log)

Returned_UnknownTypeTransparent ==
  (/\ Done /\ result.ok /\ WellFormedList(entities)
   /\ \E i \in DOMAIN entities : UnknownType(entities[i]))
  => /\ Outcome(result) = Outcome(Call(text, SelectSeq(entities, IsKnown), custom_subs))
     /\ \A i \in DOMAIN entities :
          IsKnown(entities[i]) => Count(result.log, entities[i]) = Count(entities, entities[i])

Returned_FormattedOncePerEntity ==
  Done =>
    /\ \A i \in DOMAIN result.log :
         Count(result.log, result.log[i]) <= Count(entities, result.log[i])
    /\ result.ok /\ WellFormedList(entities) =>
         \A i \in DOMAIN entities :
           Count(result.log, entities[i]) = Count(entities, entities[i])

====
